---------------------------- MODULE Spec2Model ----------------------------
(***************************************************************************)
(* Model of the two Steam-guide scripts:                                   *)
(*   steam_guide_cleaner.py      (sanitize_filename,                       *)
(*                                download_and_clean_page, __main__)       *)
(*   steam_guide_to_markdown.py  (SteamGuideProcessor)                     *)
(*                                                                         *)
(* Python strings are sequences of one-character strings, so that prefix   *)
(* tests, substring tests, replacement and formatting are computed, not    *)
(* assumed.  Python's None is the one-element sequence None below, which   *)
(* is no Python string because its element is not a single character.      *)
(***************************************************************************)
EXTENDS Integers, Sequences, FiniteSets, TLC

VARIABLES
    script,             \* which program this run executes
    pc,                 \* position in that program
    fetched,            \* requests.get: "pending", "ok" or "failed"
    response,           \* the page as fetched, before any change to the tree
    guide_title,        \* guide_title of either script, None when absent
    files,              \* the file system: paths written
    \* ---- sanitize_filename called on its own
    san_in,             \* the argument
    san_out,            \* sanitize_filename(san_in), None before the call
    san_again,          \* sanitize_filename(san_out), None before the call
    \* ---- steam_guide_cleaner.py
    args,               \* parsed command line: ids, classes, output
    tree,               \* soup: the nodes still in the tree, document order
    id_i,               \* position in divs_to_remove_ids
    class_i,            \* position in divs_to_remove_classes
    cleaned_html,       \* what download_and_clean_page returned first
    \* ---- steam_guide_to_markdown.py
    cdn_base_url,       \* SteamGuideProcessor.cdn_base_url, None when unset
    skip_ui_images,     \* SteamGuideProcessor.skip_ui_images
    soup,               \* the page: title, containers, img nodes
    guide_name,         \* sanitized title
    img_i,              \* position of the for loop of process_images
    img_counter,        \* img_counter of process_images
    image_mapping,      \* insertion-ordered dict, a sequence of [key, val]
    attempts,           \* log of download_image calls: [i, counter, name, ok]
    markdown_content,   \* result of convert_to_markdown, None before/absent
    result              \* return value of process_guide, None before/absent

comVars   == <<fetched, response, guide_title, files>>
sanVars   == <<san_in, san_out, san_again>>
cleanVars == <<args, tree, id_i, class_i, cleaned_html>>
mdVars    == <<cdn_base_url, skip_ui_images, soup, guide_name, img_i,
               img_counter, image_mapping, attempts, markdown_content, result>>
vars      == <<script, pc, comVars, sanVars, cleanVars, mdVars>>

None == <<"None">>

-----------------------------------------------------------------------------
(* Bounds of the model *)

\* longest argument of a stand-alone sanitize_filename call
MaxLen == 4
\* most element nodes of a page given to the cleaner
MaxNodes == 3
\* most <img> nodes of a page given to the Markdown converter
MaxImgs == 3

-----------------------------------------------------------------------------
(* Python string operations *)

StartsWith(s, p) == Len(s) >= Len(p) /\ SubSeq(s, 1, Len(p)) = p

\* p in s
Contains(s, p) ==
    \E i \in 1..(Len(s) - Len(p) + 1) : SubSeq(s, i, i + Len(p) - 1) = p

\* s.find(c) for a set of characters, 1-based, 0 when absent
FirstOf(s, cs) ==
    IF \E i \in 1..Len(s) : s[i] \in cs
    THEN CHOOSE i \in 1..Len(s) : s[i] \in cs /\ \A j \in 1..(i-1) : s[j] \notin cs
    ELSE 0

\* s.rfind(c), 1-based, 0 when absent
LastOf(s, c) ==
    IF \E i \in 1..Len(s) : s[i] = c
    THEN CHOOSE i \in 1..Len(s) : s[i] = c /\ \A j \in (i+1)..Len(s) : s[j] # c
    ELSE 0

\* s[i:] (1-based i)
From(s, i) == SubSeq(s, i, Len(s))

\* p occurs in s at position i
At(s, i, p) == i + Len(p) - 1 <= Len(s) /\ SubSeq(s, i, i + Len(p) - 1) = p

\* the least element of a set of positions, 0 for the empty set
Least(S) == IF S = {} THEN 0 ELSE CHOOSE i \in S : \A j \in S : i <= j

\* s.find(p), 1-based, 0 when absent
Find(s, p) == Least({i \in 1..Len(s) : At(s, i, p)})

\* s.replace(old, new): non-overlapping occurrences, left to right
RECURSIVE Replace(_, _, _)
Replace(s, old, new) ==
    LET k == IF old = <<>> THEN 0 ELSE Find(s, old)
    IN  IF k = 0 THEN s
        ELSE SubSeq(s, 1, k - 1) \o new \o Replace(From(s, k + Len(old)), old, new)

RECURSIVE Join(_, _)
Join(parts, sep) ==
    IF parts = <<>> THEN <<>>
    ELSE IF Len(parts) = 1 THEN parts[1]
    ELSE parts[1] \o sep \o Join(Tail(parts), sep)

\* all sequences over S of length at most n
RECURSIVE SeqsUpTo(_, _)
SeqsUpTo(S, n) ==
    IF n = 0 THEN {<<>>}
    ELSE LET shorter == SeqsUpTo(S, n - 1)
         IN  shorter \cup {Append(s, x) : s \in shorter, x \in S}

-----------------------------------------------------------------------------
(* sanitize_filename *)

\* the character class [<>:"/\\|?*]
IllegalChars == {"<", ">", ":", "\"", "/", "\\", "|", "?", "*"}

\* filename.replace(' ', '_')
ReplaceSpaces(s) == [i \in 1..Len(s) |-> IF s[i] = " " THEN "_" ELSE s[i]]

\* re.sub(r'[<>:"/\\|?*]', '', filename)
RemoveIllegal(s) == SelectSeq(s, LAMBDA c : c \notin IllegalChars)

\* re.sub(r'_+', '_', filename)
CollapseUnderscores(s) ==
    LET kept == SelectSeq([i \in 1..Len(s) |-> i],
                          LAMBDA i : ~(s[i] = "_" /\ i > 1 /\ s[i-1] = "_"))
    IN  [j \in 1..Len(kept) |-> s[kept[j]]]

\* .strip('_')
StripUnderscores(s) ==
    IF \A i \in 1..Len(s) : s[i] = "_" THEN <<>>
    ELSE LET a == CHOOSE i \in 1..Len(s) :
                      s[i] # "_" /\ \A j \in 1..(i-1) : s[j] = "_"
             b == CHOOSE i \in 1..Len(s) :
                      s[i] # "_" /\ \A j \in (i+1)..Len(s) : s[j] = "_"
         IN  SubSeq(s, a, b)

\* a slip: underscores collapsed before the illegal characters are deleted
sanitize_filename_collapse_first(filename) ==
    StripUnderscores(RemoveIllegal(CollapseUnderscores(ReplaceSpaces(filename))))

\* steam_guide_cleaner.sanitize_filename
sanitize_filename(filename) ==
    StripUnderscores(CollapseUnderscores(RemoveIllegal(ReplaceSpaces(filename))))

\* SteamGuideProcessor.sanitize_filename
Processor_sanitize_filename(filename) ==
    LET f1 == ReplaceSpaces(filename)
        f2 == RemoveIllegal(f1)
    IN  StripUnderscores(CollapseUnderscores(f2))

-----------------------------------------------------------------------------
(* steam_guide_cleaner.py: the page and its pruning *)

\* A page is the sequence of its element nodes in document order, each
\* [nid, parent, tag, id, classes, text] with parent = 0 for a top-level node;
\* id is a set of at most one value, text is the node's own text.

WhitespaceChars == {" ", "\n", "\t"}

\* str.strip()
Strip(s) ==
    IF \A i \in 1..Len(s) : s[i] \in WhitespaceChars THEN <<>>
    ELSE LET a == CHOOSE i \in 1..Len(s) :
                      s[i] \notin WhitespaceChars
                      /\ \A j \in 1..(i-1) : s[j] \in WhitespaceChars
             b == CHOOSE i \in 1..Len(s) :
                      s[i] \notin WhitespaceChars
                      /\ \A j \in (i+1)..Len(s) : s[j] \in WhitespaceChars
         IN  SubSeq(s, a, b)

Range(f) == {f[i] : i \in DOMAIN f}

NodeOf(nodes, nid) == CHOOSE n \in Range(nodes) : n.nid = nid

\* d is a, or a descendant of a
RECURSIVE InSubtree(_, _, _)
InSubtree(nodes, d, a) ==
    IF d = a THEN TRUE
    ELSE IF d = 0 THEN FALSE
    ELSE InSubtree(nodes, NodeOf(nodes, d).parent, a)

\* Tag.decompose(): the node and its subtree leave the tree; a node that an
\* earlier decompose() already removed is left alone
decompose(nodes, nid) ==
    IF \E n \in Range(nodes) : n.nid = nid
    THEN SelectSeq(nodes, LAMBDA n : ~InSubtree(nodes, n.nid, nid))
    ELSE nodes

\* soup.find('div', id=div_id): the first match in document order, 0 if none
find_div_by_id(nodes, div_id) ==
    LET hit(n) == n.tag = "div" /\ div_id \in n.id
    IN  IF \E i \in 1..Len(nodes) : hit(nodes[i])
        THEN nodes[CHOOSE i \in 1..Len(nodes) :
                       hit(nodes[i]) /\ \A j \in 1..(i-1) : ~hit(nodes[j])].nid
        ELSE 0

\* a slip: find() instead of find_all(), only the first match is returned
find_first_div_by_class(nodes, div_class) ==
    LET hit(n) == n.tag = "div" /\ div_class \in n.classes
        all == SelectSeq(nodes, hit)
    IN  IF all = <<>> THEN <<>> ELSE <<all[1].nid>>

\* soup.find_all('div', class_=div_class): every match, document order
find_all_divs_by_class(nodes, div_class) ==
    LET hit(n) == n.tag = "div" /\ div_class \in n.classes
        all == SelectSeq(nodes, hit)
    IN  [i \in 1..Len(all) |-> all[i].nid]

\* for i, div in enumerate(divs): div.decompose()
RECURSIVE decompose_all(_, _)
decompose_all(nodes, nids) ==
    IF nids = <<>> THEN nodes
    ELSE decompose_all(decompose(nodes, Head(nids)), Tail(nids))



\* Tag.get_text(): the text of the node and of its descendants
RECURSIVE ConcatTexts(_)
ConcatTexts(nodes) ==
    IF nodes = <<>> THEN <<>> ELSE Head(nodes).text \o ConcatTexts(Tail(nodes))

get_text(nodes, nid) ==
    ConcatTexts(SelectSeq(nodes, LAMBDA n : InSubtree(nodes, n.nid, nid)))

\* soup.find('div', class_='workshopItemTitle') and its stripped text
title_text(nodes) ==
    LET hits == find_all_divs_by_class(nodes, "workshopItemTitle")
    IN  IF hits = <<>> THEN None ELSE Strip(get_text(nodes, hits[1]))

\* (html_content, guide_title) as returned; html is the serialized tree,
\* the empty string when the tree is empty
Returned(nodes) == [isNone |-> FALSE, html |-> nodes]
ReturnedNone    == [isNone |-> TRUE,  html |-> <<>>]

\* if cleaned_html:
Truthy(r) == ~r.isNone /\ r.html # <<>>

(* the inputs of the cleaner *)

DivA == [tag |-> "div", id |-> {"global_header"}, classes |-> {}, text |-> <<"A">>]
DivB == [tag |-> "div", id |-> {}, classes |-> {"x"}, text |-> <<"B">>]
DivC == [tag |-> "div", id |-> {}, classes |-> {"x", "y"}, text |-> <<"C">>]
ParD == [tag |-> "p", id |-> {}, classes |-> {"x"}, text |-> <<"D">>]
PruneKinds == {DivA, DivB, DivC, ParD}

TitleDiv(t) ==
    [tag |-> "div", id |-> {}, classes |-> {"workshopItemTitle"}, text |-> t]

MkNode(kind, nid, parent) ==
    [nid |-> nid, parent |-> parent, tag |-> kind.tag, id |-> kind.id,
     classes |-> kind.classes, text |-> kind.text]

\* the nodes a new last node may hang under: the last node and its ancestors
RECURSIVE Spine(_, _)
Spine(nodes, nid) ==
    IF nid = 0 THEN {0} ELSE {nid} \cup Spine(nodes, nodes[nid].parent)

\* every tree of at most n nodes over PruneKinds, in document order
RECURSIVE Trees(_)
Trees(n) ==
    IF n = 0 THEN {<<>>}
    ELSE LET smaller == Trees(n - 1)
         IN  smaller \cup
             UNION {{Append(t, MkNode(k, Len(t) + 1, p)) :
                        k \in PruneKinds, p \in Spine(t, Len(t))} :
                    t \in {u \in smaller : Len(u) = n - 1}}

\* <div id="global_header">A</div><div class="x">B</div><div class="x">C</div>
ScenarioPage ==
    <<MkNode(DivA, 1, 0), MkNode(DivB, 2, 0),
      MkNode([DivB EXCEPT !.text = <<"C">>], 3, 0)>>

\* ' ' and ' My: Guide / Test '
TitleTexts ==
    {<<" ">>,
     <<" ","M","y",":"," ","G","u","i","d","e"," ","/"," ","T","e","s","t"," ">>}

TitledPages ==
    {<<MkNode(TitleDiv(t), 1, 0), MkNode(DivB, 2, 0)>> : t \in TitleTexts}

Responses == Trees(MaxNodes) \cup {ScenarioPage} \cup TitledPages

\* --ids (default global_header -1), --classes (default none), --output
IdLists ==
    {<<"global_header", "-1">>, <<"global_header">>, <<"global_header", "global_header">>}
ClassLists == {<<>>, <<"x">>, <<"y", "x">>}
OutputArgs == {None, <<"o","u","t",".","h","t","m","l">>}

DefaultOutput ==
    <<"c","l","e","a","n","e","d","_","p","a","g","e",".","h","t","m","l">>
HtmlSuffix == <<".","h","t","m","l">>

-----------------------------------------------------------------------------
(* steam_guide_to_markdown.py: URLs and file names *)

\* self.skip_patterns
skip_patterns ==
    << \* /public/images/sharedfiles/4-star_large.png
       <<"/","p","u","b","l","i","c","/","i","m","a","g","e","s","/","s","h","a","r","e","d","f","i","l","e","s","/","4","-","s","t","a","r","_","l","a","r","g","e",".","p","n","g">>,
       \* /public/images/sharedfiles/filterselect_blue.png
       <<"/","p","u","b","l","i","c","/","i","m","a","g","e","s","/","s","h","a","r","e","d","f","i","l","e","s","/","f","i","l","t","e","r","s","e","l","e","c","t","_","b","l","u","e",".","p","n","g">>,
       \* /public/images/skin_1/footerLogo_valve.png
       <<"/","p","u","b","l","i","c","/","i","m","a","g","e","s","/","s","k","i","n","_","1","/","f","o","o","t","e","r","L","o","g","o","_","v","a","l","v","e",".","p","n","g">>,
       \* /public/images/loyalty/reactions/
       <<"/","p","u","b","l","i","c","/","i","m","a","g","e","s","/","l","o","y","a","l","t","y","/","r","e","a","c","t","i","o","n","s","/">>,
       \* /avatars.fastly.steamstatic.com/
       <<"/","a","v","a","t","a","r","s",".","f","a","s","t","l","y",".","s","t","e","a","m","s","t","a","t","i","c",".","c","o","m","/">> >>

\* a slip: the UI filter never matches
should_skip_image_never(skip, url) == FALSE

\* should_skip_image, with self.skip_ui_images passed as skip
should_skip_image(skip, url) ==
    IF ~skip THEN FALSE
    ELSE \E i \in 1..Len(skip_patterns) : Contains(url, skip_patterns[i])

HttpsColon == <<"h","t","t","p","s",":">>
SteamHost ==
    <<"h","t","t","p","s",":","/","/","s","t","e","a","m","c","o","m","m","u","n","i","t","y",".","c","o","m">>
Http == <<"h","t","t","p">>

\* process_images, "Convert relative URLs to absolute": the absolute URL, or
\* None where the loop continues because the URL is not absolute
absolute_url(src) ==
    IF StartsWith(src, <<"/", "/">>) THEN HttpsColon \o src
    ELSE IF StartsWith(src, <<"/">>) THEN SteamHost \o src
    ELSE IF ~StartsWith(src, Http) THEN None
    ELSE src

Letters ==
    {"a","b","c","d","e","f","g","h","i","j","k","l","m","n","o","p","q","r",
     "s","t","u","v","w","x","y","z","A","B","C","D","E","F","G","H","I","J",
     "K","L","M","N","O","P","Q","R","S","T","U","V","W","X","Y","Z"}
Digits == {"0","1","2","3","4","5","6","7","8","9"}
SchemeChars == Letters \cup Digits \cup {"+", "-", "."}

\* s up to, not including, the first character of cs
Before(s, cs) == IF FirstOf(s, cs) = 0 THEN s ELSE SubSeq(s, 1, FirstOf(s, cs) - 1)

\* urlparse(url).path: scheme, then //netloc, then fragment and query are cut
url_path(url) ==
    LET colon == FirstOf(url, {":"})
        hasScheme == /\ colon > 1
                     /\ url[1] \in Letters
                     /\ \A i \in 1..(colon - 1) : url[i] \in SchemeChars
        rest1 == IF hasScheme THEN From(url, colon + 1) ELSE url
        rest2 == IF StartsWith(rest1, <<"/", "/">>)
                 THEN LET after == From(rest1, 3)
                          stop == FirstOf(after, {"/", "?", "#"})
                      IN  IF stop = 0 THEN <<>> ELSE From(after, stop)
                 ELSE rest1
    IN  Before(Before(rest2, {"#"}), {"?"})

\* os.path.splitext(path)[1]: from the last dot of the last component, unless
\* that component has only leading dots before it
splitext_ext(path) ==
    LET sep == LastOf(path, "/")
        dot == LastOf(path, ".")
    IN  IF dot > sep /\ \E i \in (sep + 1)..(dot - 1) : path[i] # "."
        THEN From(path, dot)
        ELSE <<>>

DotJpg == <<".","j","p","g">>

\* process_images, "Get file extension from path"
file_ext(src) ==
    LET e == splitext_ext(url_path(src)) IN IF e = <<>> THEN DotJpg ELSE e

Digit(d) == <<"0","1","2","3","4","5","6","7","8","9">>[d + 1]

RECURSIVE Decimal(_)
Decimal(n) == IF n < 10 THEN <<Digit(n)>> ELSE Decimal(n \div 10) \o <<Digit(n % 10)>>

\* f"{n:03d}"
RECURSIVE ZeroPad(_, _)
ZeroPad(s, width) == IF Len(s) >= width THEN s ELSE ZeroPad(<<"0">> \o s, width)

PadWidth == 3
Fmt03d(n) == ZeroPad(Decimal(n), PadWidth)

ImagePrefix == <<"i","m","a","g","e","_">>
ImagesSlash == <<"i","m","a","g","e","s","/">>

\* f"image_{img_counter:03d}{file_ext}"
image_name_of(counter, ext) == ImagePrefix \o Fmt03d(counter) \o ext

\* f"images/{image_name}"
local_ref(image_name) == ImagesSlash \o image_name

\* pathlib's a / b
PathJoin(a, b) == IF b = <<>> THEN a ELSE a \o <<"/">> \o b

\* Path("./steam_guides"), the default --output
output_dir == <<"s","t","e","a","m","_","g","u","i","d","e","s">>
ImagesDirName == <<"i","m","a","g","e","s">>
IndexMd == <<"i","n","d","e","x",".","m","d">>

\* f"{self.cdn_base_url}/{guide_name}/images/{image_name}"
cdn_ref(cdn, name, image_name) ==
    cdn \o <<"/">> \o name \o <<"/">> \o ImagesSlash \o image_name

\* process_images, "Update src in soup"
new_src(cdn, name, image_name) ==
    IF cdn # None /\ cdn # <<>> THEN cdn_ref(cdn, name, image_name)
    ELSE local_ref(image_name)

\* dict assignment d[key] = val: a present key keeps its place
DictHas(d, key) == \E i \in 1..Len(d) : d[i].key = key
DictSet(d, key, val) ==
    IF DictHas(d, key)
    THEN [i \in 1..Len(d) |-> IF d[i].key = key THEN [key |-> key, val |-> val] ELSE d[i]]
    ELSE Append(d, [key |-> key, val |-> val])

\* a slip: the mapping is keyed by the normalized URL
mapping_key_normalized(original_src, src) == src

\* process_images, "Store original src for mapping"
mapping_key(original_src, src) == original_src

\* a slip: the mapping is recorded whether or not the download succeeded
mapping_after_always(mapping, ok, key, image_name) ==
    DictSet(mapping, key, local_ref(image_name))

\* process_images, the mapping after download_image returned ok
mapping_after(mapping, ok, key, image_name) ==
    IF ok THEN DictSet(mapping, key, local_ref(image_name)) ELSE mapping

\* a slip: the counter advances after every attempted download
counter_after_attempt(counter, ok) == counter + 1

\* a slip: the counter is never advanced
counter_after_stuck(counter, ok) == counter

\* process_images, img_counter after download_image returned ok
counter_after(counter, ok) == IF ok THEN counter + 1 ELSE counter

-----------------------------------------------------------------------------
(* steam_guide_to_markdown.py: the page and its conversion *)

\* A page is [title, containers, imgs]: title is the text of the first
\* div.workshopItemTitle (None when the page has none); containers are the
\* conversion-root containers the page has; imgs are its <img> nodes in
\* document order, each [src, alt, where] with src = None for a node without
\* the attribute and where naming the container the node sits in, "outside"
\* for a node in neither, "chrome" for a node inside a div that
\* clean_soup_for_conversion removes.

GuideSections == "guide subSections"
ProfileBlock  == "profileBlock"

UntitledGuide == <<"U","n","t","i","t","l","e","d","_","G","u","i","d","e">>

\* download_page: title_elem.get_text().strip() if title_elem else ...
downloaded_title(page) ==
    IF page.title # None THEN Strip(page.title) ELSE UntitledGuide

\* clean_soup_for_conversion: the chrome divs leave the tree
clean_soup_for_conversion(page) ==
    [page EXCEPT !.imgs = SelectSeq(page.imgs, LAMBDA n : n.where # "chrome")]

\* a slip: with neither container the whole page is converted
conversion_root_or_page(page) ==
    IF GuideSections \in page.containers THEN GuideSections
    ELSE IF ProfileBlock \in page.containers THEN ProfileBlock
    ELSE "outside"

\* convert_to_markdown, "Find main content": the container, "none" if neither
conversion_root(page) ==
    IF GuideSections \in page.containers THEN GuideSections
    ELSE IF ProfileBlock \in page.containers THEN ProfileBlock
    ELSE "none"

\* markdownify's convert_img: ![alt](src)
img_markdown(n) ==
    <<"!", "[">> \o n.alt \o <<"]", "(">>
    \o (IF n.src = None THEN <<>> ELSE n.src) \o <<")">>

\* md(str(content_elem), ...): the images of the root, one per line
markdownify(page, root) ==
    LET inside == SelectSeq(page.imgs, LAMBDA n : n.where = root)
    IN  Join([i \in 1..Len(inside) |-> img_markdown(inside[i])], <<"\n">>)

\* the regex class \s
RegexSpace == {" ", "\t", "\n", "\r", "\f"}

\* re.sub(r'\n\s*\n\s*\n', '\n\n', markdown_content)
\* the newlines of the run of \s characters that starts at position i
RunNewlines(s, i) ==
    {k \in i..Len(s) : s[k] = "\n" /\ \A j \in i..k : s[j] \in RegexSpace}

\* the leftmost match starts at a newline whose run holds three newlines and,
\* the quantifiers being greedy, ends at the last newline of that run
RECURSIVE collapse_blank_lines(_)
collapse_blank_lines(s) ==
    LET k == Least({i \in 1..Len(s) :
                       s[i] = "\n" /\ Cardinality(RunNewlines(s, i)) >= 3})
    IN  IF k = 0 THEN s
        ELSE LET ends == RunNewlines(s, k)
                 last == CHOOSE i \in ends : \A j \in ends : j <= i
             IN  SubSeq(s, 1, k - 1) \o <<"\n", "\n">>
                 \o collapse_blank_lines(From(s, last + 1))

DivOpen  == <<"<","d","i","v">>
DivClose == <<"<","/","d","i","v",">">>

\* re.sub(r'<div[^>]*>|</div>', '', markdown_content)
\* position of the first c at or after position i, 0 when there is none
NextChar(s, i, c) == Least({k \in i..Len(s) : s[k] = c})

\* where the match that starts at position i ends, 0 when none starts there
DivTagEnd(s, i) ==
    IF At(s, i, DivOpen) /\ NextChar(s, i + Len(DivOpen), ">") # 0
    THEN NextChar(s, i + Len(DivOpen), ">")
    ELSE IF At(s, i, DivClose) THEN i + Len(DivClose) - 1
    ELSE 0

RECURSIVE strip_div_tags(_)
strip_div_tags(s) ==
    LET k == Least({i \in 1..Len(s) : DivTagEnd(s, i) # 0})
    IN  IF k = 0 THEN s
        ELSE SubSeq(s, 1, k - 1) \o strip_div_tags(From(s, DivTagEnd(s, k) + 1))

\* os.path.basename(local_path)
basename(path) == From(path, LastOf(path, "/") + 1)

EmptyImageOpen == <<"!", "[", "]", "(">>

\* one round of the loop over self.image_mapping.items()
fix_image_reference(md_text, original_src, local_path) ==
    LET replaced == Replace(md_text, original_src, local_path)
    IN  Replace(replaced,
                EmptyImageOpen \o original_src \o <<")">>,
                EmptyImageOpen \o ImagesSlash \o basename(local_path) \o <<")">>)

RECURSIVE fix_image_references(_, _)
fix_image_references(md_text, mapping) ==
    IF mapping = <<>> THEN md_text
    ELSE fix_image_references(
             fix_image_reference(md_text, Head(mapping).key, Head(mapping).val),
             Tail(mapping))

EmptyLinkOpen == <<"[", "]", "(">>

\* re.sub(r'\[]\([^)]*\)', '', markdown_content)
\* where the match that starts at position i ends, 0 when none starts there
EmptyLinkEnd(s, i) ==
    IF At(s, i, EmptyLinkOpen) THEN NextChar(s, i + Len(EmptyLinkOpen), ")") ELSE 0

RECURSIVE remove_empty_links(_)
remove_empty_links(s) ==
    LET k == Least({i \in 1..Len(s) : EmptyLinkEnd(s, i) # 0})
    IN  IF k = 0 THEN s
        ELSE SubSeq(s, 1, k - 1) \o remove_empty_links(From(s, EmptyLinkEnd(s, k) + 1))

\* convert_to_markdown on the cleaned soup: the text, None without a root
convert_to_markdown(page, mapping) ==
    LET root == conversion_root(page)
    IN  IF root = "none" THEN None
        ELSE remove_empty_links(
                 fix_image_references(
                     strip_div_tags(collapse_blank_lines(markdownify(page, root))),
                     mapping))

\* if not markdown_content
Falsy(text) == text = None \/ text = <<>>

(* the inputs of the converter *)

FooBarPng == <<"/","/","f","o","o",".","c","o","m","/","b","a","r",".","p","n","g">>
AltPic == <<"p","i","c">>

ImgPool ==
    { [src |-> FooBarPng, alt |-> <<>>, where |-> GuideSections],
      \* https://foo.com/a.gif?x=1
      [src |-> <<"h","t","t","p","s",":","/","/","f","o","o",".","c","o","m","/","a",".","g","i","f","?","x","=","1">>,
       alt |-> AltPic, where |-> GuideSections],
      [src |-> None, alt |-> AltPic, where |-> GuideSections],
      \* img/b.png
      [src |-> <<"i","m","g","/","b",".","p","n","g">>,
       alt |-> <<>>, where |-> ProfileBlock],
      \* /public/images/skin_1/footerLogo_valve.png
      [src |-> skip_patterns[3], alt |-> <<>>, where |-> "chrome"],
      \* //avatars.fastly.steamstatic.com/u.jpg
      [src |-> <<"/","/","a","v","a","t","a","r","s",".","f","a","s","t","l","y",".","s","t","e","a","m","s","t","a","t","i","c",".","c","o","m","/","u",".","j","p","g">>,
       alt |-> <<"a","v">>, where |-> "outside"],
      \* /c
      [src |-> <<"/","c">>, alt |-> <<"c">>, where |-> ProfileBlock] }

\* ' ' and 'My: Guide / Test'
GuideTitles ==
    {None, <<" ">>,
     <<"M","y",":"," ","G","u","i","d","e"," ","/"," ","T","e","s","t">>}

ContainerSets == SUBSET {GuideSections, ProfileBlock}

\* an image sits in a container only if the page has that container
WellFormed(page) ==
    \A i \in 1..Len(page.imgs) :
        page.imgs[i].where \in page.containers \cup {"outside", "chrome"}

GuidePages ==
    {page \in
        {[title |-> t, containers |-> c, imgs |-> i] :
            t \in GuideTitles, c \in ContainerSets,
            i \in {<<>>, <<[src |-> FooBarPng, alt |-> AltPic, where |-> GuideSections]>>}}
        \cup
        {[title |-> None, containers |-> c, imgs |-> i] :
            c \in ContainerSets, i \in SeqsUpTo(ImgPool, MaxImgs)} :
     WellFormed(page)}

\* --cdn
CdnArgs == {None, <<"h","t","t","p","s",":","/","/","c","d","n",".","i","o">>}

NoPage == [title |-> None, containers |-> {}, imgs |-> <<>>]

-----------------------------------------------------------------------------
(* Initial states *)

SanAlphabet == {" ", "_", ":", "/", "a"}
\* 'My: Guide / Test'
MyGuideTest ==
    <<"M","y",":"," ","G","u","i","d","e"," ","/"," ","T","e","s","t">>
SanInputs == SeqsUpTo(SanAlphabet, MaxLen) \cup {MyGuideTest}

Idle ==
    /\ fetched = "pending"
    /\ response = <<>>
    /\ guide_title = None
    /\ files = {}

SanIdle ==
    /\ san_in = <<>>
    /\ san_out = None
    /\ san_again = None

CleanIdle ==
    /\ args = [ids |-> <<>>, classes |-> <<>>, output |-> None]
    /\ tree = <<>>
    /\ id_i = 1
    /\ class_i = 1
    /\ cleaned_html = ReturnedNone

MdIdle ==
    /\ cdn_base_url = None
    /\ skip_ui_images = TRUE
    /\ soup = NoPage
    /\ guide_name = <<>>
    /\ img_i = 1
    /\ img_counter = 1
    /\ image_mapping = <<>>
    /\ attempts = <<>>
    /\ markdown_content = None
    /\ result = None

InitSanitize ==
    /\ script = "sanitize"
    /\ pc = "start"
    /\ Idle /\ CleanIdle /\ MdIdle
    /\ san_in \in SanInputs
    /\ san_out = None
    /\ san_again = None

InitCleaner ==
    /\ script = "cleaner"
    /\ pc = "fetch"
    /\ Idle /\ SanIdle /\ MdIdle
    /\ args \in [ids : IdLists, classes : ClassLists, output : OutputArgs]
    /\ tree = <<>>
    /\ id_i = 1
    /\ class_i = 1
    /\ cleaned_html = ReturnedNone

InitMarkdown ==
    /\ script = "markdown"
    /\ pc = "download_page"
    /\ Idle /\ SanIdle /\ CleanIdle
    /\ cdn_base_url \in CdnArgs
    /\ skip_ui_images \in BOOLEAN
    /\ soup = NoPage
    /\ guide_name = <<>>
    /\ img_i = 1
    /\ img_counter = 1
    /\ image_mapping = <<>>
    /\ attempts = <<>>
    /\ markdown_content = None
    /\ result = None

Init == InitSanitize \/ InitCleaner \/ InitMarkdown

-----------------------------------------------------------------------------
(* sanitize_filename on its own *)

Sanitize ==
    /\ script = "sanitize" /\ pc = "start"
    /\ san_out' = sanitize_filename(san_in)
    /\ pc' = "once"
    /\ UNCHANGED <<script, comVars, san_in, san_again, cleanVars, mdVars>>

SanitizeAgain ==
    /\ script = "sanitize" /\ pc = "once"
    /\ san_again' = Processor_sanitize_filename(san_out)
    /\ pc' = "twice"
    /\ UNCHANGED <<script, comVars, san_in, san_out, cleanVars, mdVars>>

-----------------------------------------------------------------------------
(* steam_guide_cleaner.py *)

\* requests.get or raise_for_status raises: return None, None
CleanerFetchFails ==
    /\ script = "cleaner" /\ pc = "fetch"
    /\ fetched' = "failed"
    /\ cleaned_html' = ReturnedNone
    /\ guide_title' = None
    /\ pc' = "main"
    /\ UNCHANGED <<script, response, files, sanVars, args, tree, id_i, class_i, mdVars>>

\* the page arrives, is parsed, and the title is read
CleanerFetch ==
    /\ script = "cleaner" /\ pc = "fetch"
    /\ \E r \in Responses :
          /\ response' = r
          /\ tree' = r
          /\ guide_title' = title_text(r)
    /\ fetched' = "ok"
    /\ pc' = "prune"
    /\ UNCHANGED <<script, files, sanVars, args, id_i, class_i, cleaned_html, mdVars>>

\* one round of: for div_id in divs_to_remove_ids
RemoveById ==
    /\ script = "cleaner" /\ pc = "prune"
    /\ id_i <= Len(args.ids)
    /\ LET hit == find_div_by_id(tree, args.ids[id_i])
       IN  tree' = IF hit # 0 THEN decompose(tree, hit) ELSE tree
    /\ id_i' = id_i + 1
    /\ UNCHANGED <<script, pc, comVars, sanVars, args, class_i, cleaned_html, mdVars>>

\* one round of: for div_class in divs_to_remove_classes
RemoveByClass ==
    /\ script = "cleaner" /\ pc = "prune"
    /\ id_i > Len(args.ids)
    /\ class_i <= Len(args.classes)
    /\ tree' = decompose_all(tree, find_all_divs_by_class(tree, args.classes[class_i]))
    /\ class_i' = class_i + 1
    /\ UNCHANGED <<script, pc, comVars, sanVars, args, id_i, cleaned_html, mdVars>>

\* return soup.prettify(), guide_title
CleanerReturn ==
    /\ script = "cleaner" /\ pc = "prune"
    /\ id_i > Len(args.ids)
    /\ class_i > Len(args.classes)
    /\ cleaned_html' = Returned(tree)
    /\ pc' = "main"
    /\ UNCHANGED <<script, comVars, sanVars, args, tree, id_i, class_i, mdVars>>

\* a slip: the title is used although the page has none to give
output_filename_no_default(output, title) ==
    IF output # None THEN output
    ELSE sanitize_filename(IF title = None THEN <<>> ELSE title) \o HtmlSuffix

\* __main__, "Determine the output filename"
output_filename(output, title) ==
    IF output # None THEN output
    ELSE IF title # None /\ title # <<>> THEN sanitize_filename(title) \o HtmlSuffix
    ELSE DefaultOutput

\* if cleaned_html: the file is written
MainWrite ==
    /\ script = "cleaner" /\ pc = "main"
    /\ Truthy(cleaned_html)
    /\ files' = files \cup {output_filename(args.output, guide_title)}
    /\ pc' = "done"
    /\ UNCHANGED <<script, fetched, response, guide_title, sanVars, cleanVars, mdVars>>

\* else: "Failed to retrieve or clean the page."
MainFailed ==
    /\ script = "cleaner" /\ pc = "main"
    /\ ~Truthy(cleaned_html)
    /\ pc' = "done"
    /\ UNCHANGED <<script, comVars, sanVars, cleanVars, mdVars>>

NextSanitize == Sanitize \/ SanitizeAgain

NextCleaner ==
    \/ CleanerFetchFails
    \/ CleanerFetch
    \/ RemoveById
    \/ RemoveByClass
    \/ CleanerReturn
    \/ MainWrite
    \/ MainFailed

SpecSanitize == InitSanitize /\ [][NextSanitize]_vars
SpecCleaner  == InitCleaner /\ [][NextCleaner]_vars

-----------------------------------------------------------------------------
(* steam_guide_to_markdown.py: process_guide *)

\* download_page raises inside its try: return None, None; process_guide
\* returns None
DownloadPageFails ==
    /\ script = "markdown" /\ pc = "download_page"
    /\ fetched' = "failed"
    /\ result' = None
    /\ pc' = "done"
    /\ UNCHANGED <<script, response, guide_title, files, sanVars, cleanVars,
                   cdn_base_url, skip_ui_images, soup, guide_name, img_i,
                   img_counter, image_mapping, attempts, markdown_content>>

\* download_page returns soup and title; the guide name is sanitized and
\* process_images starts with img_counter = 1
DownloadPage ==
    /\ script = "markdown" /\ pc = "download_page"
    /\ \E page \in GuidePages :
          /\ response' = page
          /\ soup' = page
          /\ guide_title' = downloaded_title(page)
          /\ guide_name' = Processor_sanitize_filename(downloaded_title(page))
    /\ fetched' = "ok"
    /\ img_i' = 1
    /\ img_counter' = 1
    /\ pc' = "process_images"
    /\ UNCHANGED <<script, files, sanVars, cleanVars, cdn_base_url,
                   skip_ui_images, image_mapping, attempts, markdown_content,
                   result>>

\* the three continue statements of the loop of process_images
skips(skip, img) ==
    \/ img.src = None
    \/ img.src = <<>>
    \/ absolute_url(img.src) = None
    \/ should_skip_image(skip, absolute_url(img.src))

\* self.output_dir / guide_name / "images" / image_name
image_path(name, image_name) ==
    PathJoin(PathJoin(PathJoin(output_dir, name), ImagesDirName), image_name)

\* one round of the loop that ends in a continue
ProcessImageSkip ==
    /\ script = "markdown" /\ pc = "process_images"
    /\ img_i <= Len(soup.imgs)
    /\ skips(skip_ui_images, soup.imgs[img_i])
    /\ img_i' = img_i + 1
    /\ UNCHANGED <<script, pc, comVars, sanVars, cleanVars, cdn_base_url,
                   skip_ui_images, soup, guide_name, img_counter, image_mapping,
                   attempts, markdown_content, result>>

\* one round of the loop in which download_image is called and returns ok
ProcessImage(ok) ==
    /\ script = "markdown" /\ pc = "process_images"
    /\ img_i <= Len(soup.imgs)
    /\ ~skips(skip_ui_images, soup.imgs[img_i])
    /\ LET original_src == soup.imgs[img_i].src
           src == absolute_url(original_src)
           image_name == image_name_of(img_counter, file_ext(src))
       IN  /\ attempts' = Append(attempts, [i |-> img_i, counter |-> img_counter,
                                            name |-> image_name, ok |-> ok])
           /\ image_mapping' = mapping_after(image_mapping, ok,
                                             mapping_key(original_src, src), image_name)
           /\ soup' = IF ok
                      THEN [soup EXCEPT !.imgs[img_i].src =
                                new_src(cdn_base_url, guide_name, image_name)]
                      ELSE soup
           /\ files' = IF ok THEN files \cup {image_path(guide_name, image_name)}
                       ELSE files
    /\ img_counter' = counter_after(img_counter, ok)
    /\ img_i' = img_i + 1
    /\ UNCHANGED <<script, pc, fetched, response, guide_title, sanVars,
                   cleanVars, cdn_base_url, skip_ui_images, guide_name,
                   markdown_content, result>>

ProcessImageDownloaded == ProcessImage(TRUE)
ProcessImageFailed == ProcessImage(FALSE)

\* the loop is over; extract_metadata reads the tree and changes nothing
ExtractMetadata ==
    /\ script = "markdown" /\ pc = "process_images"
    /\ img_i > Len(soup.imgs)
    /\ pc' = "convert"
    /\ UNCHANGED <<script, comVars, sanVars, cleanVars, mdVars>>

\* markdown_content = self.convert_to_markdown(soup)
ConvertToMarkdown ==
    /\ script = "markdown" /\ pc = "convert"
    /\ soup' = clean_soup_for_conversion(soup)
    /\ markdown_content' =
           convert_to_markdown(clean_soup_for_conversion(soup), image_mapping)
    /\ pc' = "write"
    /\ UNCHANGED <<script, comVars, sanVars, cleanVars, cdn_base_url,
                   skip_ui_images, guide_name, img_i, img_counter,
                   image_mapping, attempts, result>>

\* if not markdown_content: return None
ConversionFailed ==
    /\ script = "markdown" /\ pc = "write"
    /\ Falsy(markdown_content)
    /\ result' = None
    /\ pc' = "done"
    /\ UNCHANGED <<script, comVars, sanVars, cleanVars, cdn_base_url,
                   skip_ui_images, soup, guide_name, img_i, img_counter,
                   image_mapping, attempts, markdown_content>>

\* guide_dir / "index.md"
index_path(name) == PathJoin(PathJoin(output_dir, name), IndexMd)

\* the front matter and the text are written; return output_file
WriteIndex ==
    /\ script = "markdown" /\ pc = "write"
    /\ ~Falsy(markdown_content)
    /\ files' = files \cup {index_path(guide_name)}
    /\ result' = index_path(guide_name)
    /\ pc' = "done"
    /\ UNCHANGED <<script, fetched, response, guide_title, sanVars, cleanVars,
                   cdn_base_url, skip_ui_images, soup, guide_name, img_i,
                   img_counter, image_mapping, attempts, markdown_content>>

NextMarkdown ==
    \/ DownloadPageFails
    \/ DownloadPage
    \/ ProcessImageSkip
    \/ ProcessImageDownloaded
    \/ ProcessImageFailed
    \/ ExtractMetadata
    \/ ConvertToMarkdown
    \/ ConversionFailed
    \/ WriteIndex

SpecMarkdown == InitMarkdown /\ [][NextMarkdown]_vars

Next == NextSanitize \/ NextCleaner \/ NextMarkdown

Spec == Init /\ [][Next]_vars

-----------------------------------------------------------------------------
(* Properties of process_images *)

ProcessImagesOver == script = "markdown" /\ pc = "convert"

Successes == SelectSeq(attempts, LAMBDA a : a.ok)
Failures  == SelectSeq(attempts, LAMBDA a : ~a.ok)

\* the three decimal digits of k, written out independently of Fmt03d
ThreeDigits(k) ==
    <<Digit((k \div 100) % 10), Digit((k \div 10) % 10), Digit(k % 10)>>

\* C1: the files of the successful downloads are named image_001, image_002,
\* ..., image_N in document order, N the number of successes: the k-th success
\* has number k whatever was skipped or failed before it, no name is given to
\* two successes, and each named file is on disk.
C1_SequentialNames ==
    script = "markdown" =>
        /\ \A k \in 1..Len(Successes) :
              /\ Successes[k].counter = k
              /\ SubSeq(Successes[k].name, 1, 9) = ImagePrefix \o ThreeDigits(k)
              /\ image_path(guide_name, Successes[k].name) \in files
        /\ \A j, k \in 1..Len(Successes) :
              j < k => /\ Successes[j].i < Successes[k].i
                       /\ Successes[j].name # Successes[k].name

\* two successes, the second one after an image that was skipped or failed
C1_Witness ==
    /\ ProcessImagesOver
    /\ Len(Successes) >= 2
    /\ Successes[2].i > 2

\* the URL of node o, normalized, contains a UI-chrome substring
IsUiImage(o) ==
    /\ o.src # None
    /\ absolute_url(o.src) # None
    /\ \E i \in 1..Len(skip_patterns) : Contains(absolute_url(o.src), skip_patterns[i])

\* C2: with skip_ui_images set, when process_images is over every <img> whose
\* normalized URL contains a skip pattern has the src it came with, and
\* neither that src nor its normalized form is a key of image_mapping.
C2_UiImagesUntouched ==
    (ProcessImagesOver /\ skip_ui_images) =>
        \A i \in 1..Len(response.imgs) :
            IsUiImage(response.imgs[i]) =>
                /\ soup.imgs[i].src = response.imgs[i].src
                /\ ~DictHas(image_mapping, response.imgs[i].src)
                /\ ~DictHas(image_mapping, absolute_url(response.imgs[i].src))

\* a UI image was passed over and another image was downloaded and mapped
C2_Witness ==
    /\ ProcessImagesOver /\ skip_ui_images
    /\ \E i \in 1..Len(response.imgs) : IsUiImage(response.imgs[i])
    /\ image_mapping # <<>>

HttpsFooBarPng ==
    <<"h","t","t","p","s",":","/","/","f","o","o",".","c","o","m","/","b","a","r",".","p","n","g">>
ImagesImage001Png ==
    <<"i","m","a","g","e","s","/","i","m","a","g","e","_","0","0","1",".","p","n","g">>

\* one <img src="//foo.com/bar.png">, no CDN, the download succeeded
FooBarScenario ==
    /\ ProcessImagesOver
    /\ cdn_base_url = None
    /\ Len(response.imgs) = 1
    /\ response.imgs[1].src = FooBarPng
    /\ Len(attempts) = 1 /\ attempts[1].ok

\* C3 as claimed: in the scenario the node reads images/image_001.png and the
\* mapping key is the normalized https://foo.com/bar.png.
C3_KeyIsNormalized ==
    FooBarScenario =>
        /\ soup.imgs[1].src = ImagesImage001Png
        /\ image_mapping = <<[key |-> HttpsFooBarPng, val |-> ImagesImage001Png]>>

\* C3 amended: in the scenario the node reads images/image_001.png and the
\* mapping key is the attribute value as it stood, //foo.com/bar.png; in
\* general every key is the original src of a node whose download succeeded.
C3_KeyIsOriginalSrc ==
    /\ FooBarScenario =>
          /\ soup.imgs[1].src = ImagesImage001Png
          /\ image_mapping = <<[key |-> FooBarPng, val |-> ImagesImage001Png]>>
    /\ ProcessImagesOver =>
          \A e \in Range(image_mapping) :
              \E k \in 1..Len(Successes) :
                  /\ response.imgs[Successes[k].i].src = e.key
                  /\ soup.imgs[Successes[k].i].src # e.key

C3_Witness == FooBarScenario /\ image_mapping # <<>>

\* C5: a failed download leaves the tree and the mapping as they were and the
\* loop moves to the next node; when the loop is over every node has been
\* visited and every node that is not skipped has had its download attempted;
\* after a failure process_guide ends only through the conversion.
C5_FailureNotFatal ==
    /\ [][(script = "markdown" /\ Len(attempts') = Len(attempts) + 1
              /\ ~attempts'[Len(attempts')].ok)
          => /\ soup' = soup
             /\ image_mapping' = image_mapping
             /\ files' = files
             /\ img_i' = img_i + 1
             /\ pc' = "process_images"]_vars
    /\ [](ProcessImagesOver =>
            /\ img_i = Len(response.imgs) + 1
            /\ \A i \in 1..Len(response.imgs) :
                  ~skips(skip_ui_images, response.imgs[i])
                      => \E k \in 1..Len(attempts) : attempts[k].i = i)
    /\ [][(script = "markdown" /\ Failures # <<>> /\ pc' = "done")
          => pc = "write"]_vars
    /\ [](script = "markdown" /\ Failures # <<>> /\ pc = "done"
            => (result = None <=> Falsy(markdown_content)))

\* a download failed, a later one succeeded, and index.md was written
C5_Witness ==
    /\ script = "markdown" /\ pc = "done"
    /\ result # None
    /\ \E j, k \in 1..Len(attempts) : j < k /\ ~attempts[j].ok /\ attempts[k].ok

\* C10 as claimed: the counter advances by one for every attempted download,
\* whether it succeeded or failed.
C10_CounterCountsAttempts ==
    script = "markdown" => img_counter = 1 + Len(attempts)

\* C10 amended: the counter starts at 1, is not advanced by a skipped image
\* nor by a failed download, and advances by one for every successful
\* download; the number of a failed download is the number of the next
\* attempted image.
C10_CounterCountsSuccesses ==
    /\ [](script = "markdown" =>
            /\ img_counter = 1 + Len(Successes)
            /\ attempts # <<>> => attempts[1].counter = 1
            /\ \A k \in 1..(Len(attempts) - 1) :
                  attempts[k+1].counter =
                      attempts[k].counter + (IF attempts[k].ok THEN 1 ELSE 0))
    /\ [][(script = "markdown" /\ attempts' = attempts)
          => img_counter' = img_counter]_vars

\* a failed download, then an attempted one that took the same number, with
\* a skipped image somewhere
C10_Witness ==
    /\ ProcessImagesOver
    /\ Len(attempts) < Len(response.imgs)
    /\ \E k \in 1..(Len(attempts) - 1) :
          ~attempts[k].ok /\ attempts[k+1].counter = attempts[k].counter

-----------------------------------------------------------------------------
(* Properties of the conversion and of the output files *)

EndsWith(s, p) == Len(s) >= Len(p) /\ SubSeq(s, Len(s) - Len(p) + 1, Len(s)) = p

Returned_OK == script = "markdown" /\ pc = "done" /\ result # None

\* C4: when process_guide has returned the path of index.md, for every entry
\* of image_mapping the original URL occurs nowhere in the Markdown text and
\* the local path images/image_NNN.ext occurs in it.
C4_RoundTrip ==
    Returned_OK =>
        \A e \in Range(image_mapping) :
            /\ ~Contains(markdown_content, e.key)
            /\ Contains(markdown_content, e.val)

IndexWritten == \E f \in files : EndsWith(f, IndexMd)

\* C7: a failed fetch, or a page with neither conversion-root container, makes
\* process_guide return None with no index.md written; index.md is on disk
\* only when process_guide has returned its path; a failed fetch makes
\* download_and_clean_page return (None, None) and no file is written.
C7_FailureReported ==
    /\ (script = "markdown" /\ pc = "done"
          /\ (fetched = "failed" \/ response.containers = {}))
       => (result = None /\ ~IndexWritten)
    /\ (script = "markdown" /\ IndexWritten)
       => (pc = "done" /\ result \in files /\ EndsWith(result, IndexMd))
    /\ (script = "cleaner" /\ fetched = "failed")
       => (cleaned_html = ReturnedNone /\ guide_title = None /\ files = {})

\* a page without either container whose images were downloaded all the same
C7_Witness ==
    /\ script = "markdown" /\ pc = "done"
    /\ fetched = "ok" /\ response.containers = {}
    /\ image_mapping # <<>>

HasTitleDiv(nodes) ==
    \E n \in Range(nodes) : n.tag = "div" /\ "workshopItemTitle" \in n.classes

\* the text of the title div of a cleaner page, stripped
TitleOf(nodes) ==
    Strip((CHOOSE n \in Range(nodes) :
               n.tag = "div" /\ "workshopItemTitle" \in n.classes).text)

\* steam_guides/Untitled_Guide/index.md
UntitledIndex ==
    <<"s","t","e","a","m","_","g","u","i","d","e","s","/","U","n","t","i","t","l","e","d","_","G","u","i","d","e","/","i","n","d","e","x",".","m","d">>
MyGuideTestHtml ==
    <<"M","y","_","G","u","i","d","e","_","T","e","s","t",".","h","t","m","l">>

HtmlWritten ==
    /\ script = "cleaner" /\ pc = "done"
    /\ fetched = "ok" /\ args.output = None /\ files # {}

\* Markdown mode: Untitled_Guide without a title div, the sanitized title with
MarkdownNaming ==
    (script = "markdown" /\ fetched = "ok") =>
        /\ response.title = None =>
              /\ guide_name = UntitledGuide
              /\ IndexWritten => files \ {f \in files : ~EndsWith(f, IndexMd)}
                                   = {UntitledIndex}
        /\ response.title # None =>
              /\ guide_name = sanitize_filename(Strip(response.title))
              /\ response.title = MyGuideTest => guide_name =
                    <<"M","y","_","G","u","i","d","e","_","T","e","s","t">>
              /\ IndexWritten => index_path(guide_name) \in files

\* C8 as claimed: without a title div the HTML file is cleaned_page.html and
\* the guide name is Untitled_Guide; with a title div the file or directory
\* is named after the sanitized title instead.
C8_TitleDivDecidesName ==
    /\ HtmlWritten =>
          IF HasTitleDiv(response)
          THEN files = {sanitize_filename(TitleOf(response)) \o HtmlSuffix}
          ELSE files = {DefaultOutput}
    /\ MarkdownNaming

\* C8 amended: HTML mode uses cleaned_page.html when the page has no title
\* div and also when the title div's stripped text is empty; a title div
\* with text names the file after the sanitized title.  Markdown mode uses
\* Untitled_Guide without a title div and the sanitized title with one.
C8_TitleTextDecidesName ==
    /\ HtmlWritten =>
          IF HasTitleDiv(response) /\ TitleOf(response) # <<>>
          THEN /\ files = {sanitize_filename(TitleOf(response)) \o HtmlSuffix}
               /\ TitleOf(response) = MyGuideTest => files = {MyGuideTestHtml}
          ELSE files = {DefaultOutput}
    /\ MarkdownNaming

\* HTML mode wrote cleaned_page.html for a page without a title div
C8_Witness ==
    /\ HtmlWritten
    /\ ~HasTitleDiv(response)
    /\ files = {DefaultOutput}

-----------------------------------------------------------------------------
(* Properties of the pruning *)

Pruned == script = "cleaner" /\ fetched = "ok" /\ pc \in {"main", "done"}

Listed(n, classes) == \E k \in 1..Len(classes) : classes[k] \in n.classes

\* C6: after the pruning no div with a listed class is left, nested or not;
\* for each listed id the first div of the page with that id is gone with its
\* whole subtree; the ids are done before the first class is looked at; and
\* the page A, B, C pruned with ids = [global_header], classes = [x] keeps
\* none of the three texts.
C6_Pruned ==
    /\ (script = "cleaner" /\ class_i > 1) => id_i > Len(args.ids)
    /\ Pruned =>
          LET out == cleaned_html.html
              left == {n.nid : n \in Range(out)}
          IN  /\ \A n \in Range(out) : ~(n.tag = "div" /\ Listed(n, args.classes))
              /\ \A k \in 1..Len(args.ids) :
                    LET first == find_div_by_id(response, args.ids[k])
                    IN  first # 0 =>
                            \A n \in Range(response) :
                                InSubtree(response, n.nid, first) => n.nid \notin left
              /\ Range(out) \subseteq Range(response)
              /\ (response = ScenarioPage /\ args.ids = <<"global_header">>
                     /\ args.classes = <<"x">>)
                 => \A n \in Range(out) : n.text \notin {<<"A">>, <<"B">>, <<"C">>}

\* a listed div nested in another listed div was pruned and something is left
C6_Witness ==
    /\ Pruned
    /\ cleaned_html.html # <<>>
    /\ \E n, m \in Range(response) :
          /\ m.parent = n.nid
          /\ n.tag = "div" /\ Listed(n, args.classes)
          /\ m.tag = "div" /\ Listed(m, args.classes)

-----------------------------------------------------------------------------
(* Properties of sanitize_filename *)

\* C9: the result is the four steps applied in the order space replacement,
\* deletion of illegal characters, collapse, trim; it has no space, no
\* illegal character, no two adjacent underscores and no underscore at either
\* end; both scripts compute the same; sanitizing the result again changes
\* nothing; and "My: Guide / Test" gives "My_Guide_Test".
C9_Sanitized ==
    /\ (script = "sanitize" /\ pc \in {"once", "twice"}) =>
          /\ san_out =
                StripUnderscores(CollapseUnderscores(RemoveIllegal(ReplaceSpaces(san_in))))
          /\ \A i \in 1..Len(san_out) : san_out[i] \notin IllegalChars \cup {" "}
          /\ \A i \in 1..(Len(san_out) - 1) : ~(san_out[i] = "_" /\ san_out[i+1] = "_")
          /\ san_out # <<>> => (san_out[1] # "_" /\ san_out[Len(san_out)] # "_")
          /\ san_out = Processor_sanitize_filename(san_in)
          /\ san_in = MyGuideTest =>
                san_out = <<"M","y","_","G","u","i","d","e","_","T","e","s","t">>
    /\ (script = "sanitize" /\ pc = "twice") => san_again = san_out

\* "My: Guide / Test" was sanitized, and sanitized again
C9_Witness ==
    /\ script = "sanitize" /\ pc = "twice"
    /\ san_in = MyGuideTest
    /\ san_out # san_in

=============================================================================
